---- MODULE Spec2Model ----
(***************************************************************************)
(* Model of stretchablecorr (digital image correlation):                   *)
(*   stretchablecorr.py    crop, get_shifts, build_grid, tracking loops    *)
(*   opti_registration.py  custom_fftfreq, phase_registration_optim        *)
(*                                                                         *)
(* Conventions                                                             *)
(*   - an image is a record [h, w, px], px a function on                   *)
(*     (0..h-1) \X (0..w-1) (row, column), as a 2D numpy array;            *)
(*   - a float coordinate or displacement is an integer count of 1/Den     *)
(*     pixel, so that np.around and the sub-pixel results have something   *)
(*     to round;                                                           *)
(*   - an exception is a record [kind, origin]: kind is the Python class   *)
(*     an `except` clause matches on, origin the statement that raised.    *)
(***************************************************************************)
EXTENDS Integers, Sequences, FiniteSets, TLC

\* ---------------------------------------------------------------- bounds
\* resolution of float coordinates: 1/Den pixel
Den == 2
\* largest image height and width drawn for a single crop call
MaxDim == 4
\* largest half_size drawn for a single crop call
MaxHalf == 2
\* largest image height and width drawn for a single registration call
MaxRegDim == 3
\* largest n drawn for custom_fftfreq(n)
MaxFreqN == 32
\* largest image height and width drawn for build_grid
MaxGridDim == 7
\* largest margin and spacing drawn for build_grid, in pixels
MaxMargin == 2
MaxSpacing == 3
\* height and width of the images of a tracked sequence
TrackDim == 6
\* number of images of a tracked sequence
NumImages == 3
\* largest number of tracked points
MaxPoints == 2

VARIABLES
    \* ---- one call of crop(I, xy_center, half_size)
    cpc,        \* "idle" | "returned"
    cI,         \* the image I
    cXY,        \* xy_center = <<x, y>>, in 1/Den pixel
    cHalf,      \* half_size
    cRes,       \* what the call produced
    \* ---- one call of phase_registration_optim(A, B)
    rpc,        \* the statement the call has reached
    rA, rB,     \* the images A and B
    rFFT,       \* which of "A", "B" fftn has transformed so far
    rab,        \* the cross-power spectrum ab (see CrossPower)
    rCorr,      \* phase_corr
    rArgmax,    \* argmax = <<dy, dx>>, in 1/Den pixel
    rX,         \* res.x, in 1/Den pixel
    rOut,       \* [err, displ, errors]: what the call raised or returned
    \* ---- one call of custom_fftfreq(n)
    fpc,        \* the statement the call has reached
    fN,         \* n
    fResults,   \* the array `results`, filled as the call proceeds
    fOut,       \* the returned array, each entry a fraction <<num, den>>
    \* ---- one call of build_grid(img_shape, margin, spacing)
    gpc,        \* "idle" | "returned"
    gShape,     \* img_shape = <<height, width>>
    gMargin,    \* margin, in 1/Den pixel
    gSpacing,   \* spacing, in 1/Den pixel
    gOut,       \* [err, xs, ys]: the X and the Y coordinates of the grid
    \* ---- one call of a tracking loop
    tpc,        \* "for_i" | "for_k" | "returned" | "raised"
    tFn,        \* the function called
    tImages,    \* argument images
    tPoints,    \* argument points / start_points, each <<x, y>> in 1/Den pixel
    tOffsetsArg,\* argument offsets: None, a 2D or a 3D array
    tParams,    \* [window_half_size, method, coarse_search]
    tGiven,     \* the arguments as they were when the call was made
    tOffsets,   \* local offsets[k][i], after lines 287-291
    tDispl,     \* displ[k][i]
    tErrors,    \* errors[k][i]
    tI, tK,     \* the loop variables i and k (tI counts the points begun,
                \* tK the image pairs begun or done)
    tPos,       \* <<xi, yi>>
    tExc,       \* the exception the call raised, if any
    tCaught,    \* every exception an `except ValueError` clause caught
    tCalls      \* every call of get_shifts made, with what it gave

cropVars == <<cpc, cI, cXY, cHalf, cRes>>
regVars == <<rpc, rA, rB, rFFT, rab, rCorr, rArgmax, rX, rOut>>
freqVars == <<fpc, fN, fResults, fOut>>
gridVars == <<gpc, gShape, gMargin, gSpacing, gOut>>
trackVars == <<tpc, tFn, tImages, tPoints, tOffsetsArg, tParams, tGiven, tOffsets,
               tDispl, tErrors, tI, tK, tPos, tExc, tCaught, tCalls>>
vars == <<cropVars, regVars, freqVars, gridVars, trackVars>>

\* ------------------------------------------------------------ arithmetic
Abs(v) == IF v < 0 THEN -v ELSE v
Min(a, b) == IF a <= b THEN a ELSE b
Max(a, b) == IF a >= b THEN a ELSE b

\* np.around(v).astype(int) of v/Den: nearest integer, ties to the even one
Around(v) ==
    LET q == v \div Den
        r == v % Den
    IN  IF 2 * r < Den THEN q
        ELSE IF 2 * r > Den THEN q + 1
        ELSE IF q % 2 = 0 THEN q ELSE q + 1

\* int(v/Den) of Python: truncation toward zero
IntTrunc(v) == IF v >= 0 THEN v \div Den ELSE -((-v) \div Den)

\* ------------------------------------------------------------ exceptions
NoError == [kind |-> "none", origin |-> "none"]
CropError == [kind |-> "ValueError", origin |-> "crop out of image bounds"]

\* ----------------------------------------------------------------- images
Pixels(h, w) == (0 .. h - 1) \X (0 .. w - 1)
\* an image whose pixel value names its own row and column
IndexImage(h, w) == [h |-> h, w |-> w, px |-> [p \in Pixels(h, w) |-> p[1] * w + p[2]]]
EmptyImage == [h |-> 0, w |-> 0, px |-> <<>>]

\* the indices a Python slice start:stop selects on an axis of length n:
\* a negative bound counts from the end, then both are clipped to 0..n
SliceBound(v, n) ==
    IF v < 0 THEN (IF v + n < 0 THEN 0 ELSE v + n)
    ELSE IF v > n THEN n ELSE v
PySlice(start, stop, n) ==
    LET s == SliceBound(start, n)
        e == SliceBound(stop, n)
    IN  [k \in 1 .. Max(0, e - s) |-> s + k - 1]

\* I[rows, cols]
SubImage(I, rows, cols) ==
    [h |-> Len(rows), w |-> Len(cols),
     px |-> [p \in Pixels(Len(rows), Len(cols)) |->
                I.px[<<rows[p[1] + 1], cols[p[2] + 1]>>]]]

\* crop(I, xy_center, half_size): [err, img, ij]
crop(I, xy, half) ==
    LET j == Around(xy[1])
        i == Around(xy[2])
        rows == PySlice(i - half, i + half + 1, I.h)
        cols == PySlice(j - half, j + half + 1, I.w)
    IN  IF Len(rows) # 2 * half + 1 \/ Len(cols) # 2 * half + 1
        THEN [err |-> CropError, img |-> EmptyImage, ij |-> <<i, j>>]
        ELSE [err |-> NoError, img |-> SubImage(I, rows, cols), ij |-> <<i, j>>]

\* ------------------------------------------------------ one call of crop
CropCentres == (-(MaxDim + 2) * Den) .. ((MaxDim + 2) * Den)
NoCropResult == [err |-> NoError, img |-> EmptyImage, ij |-> <<0, 0>>]

CropIdle ==
    /\ cpc = "idle"
    /\ cI = EmptyImage
    /\ cXY = <<0, 0>>
    /\ cHalf = 0
    /\ cRes = NoCropResult

CropCall ==
    /\ cpc = "idle"
    /\ \E h \in 1 .. MaxDim, w \in 1 .. MaxDim, x \in CropCentres, y \in CropCentres,
          half \in 0 .. MaxHalf :
          /\ cI' = IndexImage(h, w)
          /\ cXY' = <<x, y>>
          /\ cHalf' = half
          /\ cRes' = crop(IndexImage(h, w), <<x, y>>, half)
    /\ cpc' = "returned"

CropReturn ==
    /\ cpc = "returned"
    /\ cpc' = "idle"
    /\ cI' = EmptyImage
    /\ cXY' = <<0, 0>>
    /\ cHalf' = 0
    /\ cRes' = NoCropResult

\* --------------------------------------- phase_registration_optim(A, B)
\* The call is modelled as the claims make it: phase=False, verbose=False,
\* so window = 1 and ab is not normalised.
\*
\* Representation.  The DFT is a bijection, so a spectrum is held as the
\* array it is the transform of:
\*   - fftn(A) is held as A;
\*   - numpy broadcasting a spectrum of shape (1, w) along the rows repeats
\*     it on every frequency row, which is the transform of A followed by
\*     rows of zeros (and likewise for columns);
\*   - a * b.conj() is held as its inverse transform, the circular
\*     cross-correlation c[n] = SUM_m A[m + n] * B[m] of the two arrays.
\* dft_dot(ab, yx) at an integer yx is c[yx].

ShapeOf(I) == <<I.h, I.w>>

\* numpy's broadcasting rule on one axis, and the resulting length
Broadcastable(m, n) == m = n \/ m = 1 \/ n = 1
BroadcastError ==
    [kind |-> "ValueError", origin |-> "operands could not be broadcast together"]

\* the array whose transform is fftn(I) broadcast to shape (h, w)
SpectrumBroadcast(I, h, w) ==
    [h |-> h, w |-> w,
     px |-> [p \in Pixels(h, w) |->
                IF p[1] < I.h /\ p[2] < I.w THEN I.px[p] ELSE 0]]

\* SUM of A[m + n] * B[m] over the first k pixels m, in row-major order
RECURSIVE LagSum(_, _, _, _)
LagSum(A, B, n, k) ==
    IF k = 0 THEN 0
    ELSE LET m == <<(k - 1) \div A.w, (k - 1) % A.w>>
         IN  A.px[<<(m[1] + n[1]) % A.h, (m[2] + n[2]) % A.w>>] * B.px[m]
                + LagSum(A, B, n, k - 1)

\* ab = a * b.conj()  (line 121), for operands already of one shape
CrossPower(A, B) ==
    [h |-> A.h, w |-> A.w,
     px |-> [n \in Pixels(A.h, A.w) |-> LagSum(A, B, n, A.h * A.w)]]

\* np.fft.fftshift on both axes: out[k] = in[(k - n // 2) mod n]
fftshift(X) ==
    [h |-> X.h, w |-> X.w,
     px |-> [p \in Pixels(X.h, X.w) |->
                X.px[<<(p[1] - X.h \div 2) % X.h, (p[2] - X.w \div 2) % X.w>>]]]

\* phase_corr = np.abs(fftshift(ifftn(fftshift(ab))))  (lines 125-127).
\* fftshift(ab) rolls the spectrum, which multiplies its inverse transform
\* by a unit-modulus phase; np.abs removes it.
PhaseCorr(ab) ==
    LET c == fftshift(ab)
    IN  [h |-> c.h, w |-> c.w, px |-> [p \in Pixels(c.h, c.w) |-> Abs(c.px[p])]]

\* fftshift(fftfreq(n))[k] * scale  (lines 129-130), in 1/Den pixel.
\* fftfreq(n) = [0, 1, .., -(n//2), .., -1] / n, see custom_fftfreq.  Exact
\* when scale = n (A and phase_corr of one shape); rounded down to the
\* 1/Den grid when broadcasting made them differ.
SpanValue(k, n, scale) == ((k - n \div 2) * scale * Den) \div n

\* np.unravel_index(np.argmax(X), X.shape): the first maximum in row-major
\* order
ArgmaxIdx(X) ==
    LET flat(p) == p[1] * X.w + p[2]
        best == {p \in Pixels(X.h, X.w) :
                    \A q \in Pixels(X.h, X.w) : X.px[q] <= X.px[p]}
    IN  CHOOSE p \in best : \A q \in best : flat(p) <= flat(q)

\* argmax = dy_span[argmax_idx[0]], dx_span[argmax_idx[1]]  (lines 133-134)
CoarseArgmax(A, corr) ==
    LET idx == ArgmaxIdx(corr)
    IN  <<SpanValue(idx[1], corr.h, A.h), SpanValue(idx[2], corr.w, A.w)>>

\* jac(xy, ab) = -Re(grad_dft(ab, xy)) is (0, 0) at xy: at an integer
\* point Re d/dx is SUM_m c[y0, x0 - m] * h[m] for a real odd kernel h (the
\* derivative of the DFT interpolant), so it vanishes when c is symmetric
\* about xy along each axis.  Elsewhere the model does not decide it.
JacIsZero(ab, xy) ==
    /\ xy[1] % Den = 0 /\ xy[2] % Den = 0
    /\ LET y0 == xy[1] \div Den
           x0 == xy[2] \div Den
           at(y, x) == ab.px[<<y % ab.h, x % ab.w>>]
       IN  /\ \A m \in 1 .. ab.w : at(y0, x0 + m) = at(y0, x0 - m)
           /\ \A m \in 1 .. ab.h : at(y0 + m, x0) = at(y0 - m, x0)

\* how far from its start the quasi-Newton search may end, in 1/Den pixel
RefineReach == Den

\* minimize(cost, argmax, args=(ab,), method='BFGS', tol=1e-3, jac=jac).x
\* (lines 142-146): the set of points the search may return.  BFGS tests the
\* gradient norm before its first step, so a stationary start is returned
\* as it is; from any other start the end point is a real number the model
\* leaves open within RefineReach of the start.
minimize(ab, x0) ==
    IF JacIsZero(ab, x0) THEN {x0}
    ELSE {<<x0[1] + e[1], x0[2] + e[2]>> :
            e \in (-RefineReach .. RefineReach) \X (-RefineReach .. RefineReach)}

\* a return that forgets the sign convention
DisplacementNotNegated(x) == x
\* return -res.x, (1, C_theta)  (line 163)
Displacement(x) == <<-x[1], -x[2]>>

NoImage == EmptyImage
NoPoint == <<0, 0>>
NoOut == [err |-> NoError, displ |-> <<>>, errors |-> <<>>]

\* np.roll(A, d, axis=(0, 1)): A circularly shifted by d = <<dy, dx>>
Roll(A, d) ==
    [h |-> A.h, w |-> A.w,
     px |-> [p \in Pixels(A.h, A.w) |->
                A.px[<<(p[1] - d[1]) % A.h, (p[2] - d[2]) % A.w>>]]]

\* the images drawn: a dark field with one or two bright pixels, and a
\* uniform field
TwoDot(h, w, p1, p2) ==
    [h |-> h, w |-> w,
     px |-> [p \in Pixels(h, w) |->
                (IF p = p1 THEN 2 ELSE 0) + (IF p = p2 THEN 1 ELSE 0)]]
Uniform(h, w) == [h |-> h, w |-> w, px |-> [p \in Pixels(h, w) |-> 1]]
RegShapes == (1 .. MaxRegDim) \X (1 .. MaxRegDim)
RegImages ==
    UNION {{TwoDot(s[1], s[2], p1, p2) :
                p1 \in Pixels(s[1], s[2]), p2 \in Pixels(s[1], s[2])}
           \cup {Uniform(s[1], s[2])} : s \in RegShapes}
RegShifts == (-MaxRegDim .. MaxRegDim) \X (-MaxRegDim .. MaxRegDim)
\* the pattern of A laid out on another shape
Retile(A, h, w) ==
    [h |-> h, w |-> w,
     px |-> [p \in Pixels(h, w) |-> A.px[<<p[1] % A.h, p[2] % A.w>>]]]

RegIdle ==
    /\ rpc = "idle"
    /\ rA = NoImage /\ rB = NoImage
    /\ rFFT = {}
    /\ rab = NoImage /\ rCorr = NoImage
    /\ rArgmax = NoPoint /\ rX = NoPoint
    /\ rOut = NoOut

\* a = fftn(A * window)  (line 118)
RegFftA ==
    /\ rpc = "called"
    /\ rFFT' = rFFT \cup {"A"}
    /\ rpc' = "fft_a"
    /\ UNCHANGED <<rA, rB, rab, rCorr, rArgmax, rX, rOut>>

\* b = fftn(B * window)  (line 119)
RegFftB ==
    /\ rpc = "fft_a"
    /\ rFFT' = rFFT \cup {"B"}
    /\ rpc' = "fft_b"
    /\ UNCHANGED <<rA, rB, rab, rCorr, rArgmax, rX, rOut>>

\* ab = a * b.conj()  (line 121): numpy broadcasts the operands or raises
RegCrossPower ==
    /\ rpc = "fft_b"
    /\ IF Broadcastable(rA.h, rB.h) /\ Broadcastable(rA.w, rB.w)
       THEN LET h == Max(rA.h, rB.h)
                w == Max(rA.w, rB.w)
            IN  /\ rab' = CrossPower(SpectrumBroadcast(rA, h, w),
                                     SpectrumBroadcast(rB, h, w))
                /\ rpc' = "ab"
                /\ rOut' = rOut
       ELSE /\ rab' = rab
            /\ rpc' = "raised"
            /\ rOut' = [rOut EXCEPT !.err = BroadcastError]
    /\ UNCHANGED <<rA, rB, rFFT, rCorr, rArgmax, rX>>

\* phase_corr  (lines 125-127)
RegPhaseCorr ==
    /\ rpc = "ab"
    /\ rCorr' = PhaseCorr(rab)
    /\ rpc' = "phase_corr"
    /\ UNCHANGED <<rA, rB, rFFT, rab, rArgmax, rX, rOut>>

\* argmax  (lines 129-134)
RegArgmax ==
    /\ rpc = "phase_corr"
    /\ rArgmax' = CoarseArgmax(rA, rCorr)
    /\ rpc' = "argmax"
    /\ UNCHANGED <<rA, rB, rFFT, rab, rCorr, rX, rOut>>

\* res = minimize(...)  (lines 142-146)
RegMinimize ==
    /\ rpc = "argmax"
    /\ \E x \in minimize(rab, rArgmax) : rX' = x
    /\ rpc' = "minimized"
    /\ UNCHANGED <<rA, rB, rFFT, rab, rCorr, rArgmax, rOut>>

\* the error estimate and the return  (lines 152-163)
RegReturn ==
    /\ rpc = "minimized"
    /\ rOut' = [err |-> NoError, displ |-> Displacement(rX),
                errors |-> <<1, "C_theta">>]
    /\ rpc' = "returned"
    /\ UNCHANGED <<rA, rB, rFFT, rab, rCorr, rArgmax, rX>>

\* phase_registration_optim(A, B) is called
RegCalled ==
    /\ rpc = "called"
    /\ rA \in RegImages
    /\ rB \in {Roll(rA, d) : d \in RegShifts}
              \cup {Retile(rA, s[1], s[2]) : s \in RegShapes}
    /\ rFFT = {}
    /\ rab = NoImage /\ rCorr = NoImage
    /\ rArgmax = NoPoint /\ rX = NoPoint
    /\ rOut = NoOut

\* phase_registration_optim(A, B) as a whole: every [err, displ, errors] the
\* call may end with
phase_registration_optim(A, B) ==
    IF ~(Broadcastable(A.h, B.h) /\ Broadcastable(A.w, B.w))
    THEN {[err |-> BroadcastError, displ |-> <<>>, errors |-> <<>>]}
    ELSE LET h == Max(A.h, B.h)
             w == Max(A.w, B.w)
             ab == CrossPower(SpectrumBroadcast(A, h, w), SpectrumBroadcast(B, h, w))
         IN  {[err |-> NoError, displ |-> Displacement(x),
               errors |-> <<1, "C_theta">>] :
                 x \in minimize(ab, CoarseArgmax(A, PhaseCorr(ab)))}

\* ----------------------------------------------------------- get_shifts
\* skimage's phase_cross_correlation(source, target, upsample_factor=1):
\* the first maximum of |ifftn(fft(source) * fft(target).conj())|, an index
\* above the midpoint fix(n/2) of its axis counted back from the end.
\* <<shift_y, shift_x>>, in pixels.
phase_cross_correlation(source, target) ==
    LET c == CrossPower(source, target)
        a == [h |-> c.h, w |-> c.w, px |-> [q \in Pixels(c.h, c.w) |-> Abs(c.px[q])]]
        idx == ArgmaxIdx(a)
        wrap(v, n) == IF v > n \div 2 THEN v - n ELSE v
    IN  <<wrap(idx[1], c.h), wrap(idx[2], c.w)>>

\* coarse_window_half_size = 70  (line 108)
CoarseHalfSize == 70

\* the values of the list `errors`: a float, or a tuple of floats
Scalar(name) == [scalar |-> TRUE, v |-> name]
Tuple(name) == [scalar |-> FALSE, v |-> name]

MethodError == [kind |-> "TypeError", origin |-> "method must be 'skimage' or 'opti'"]
Raises(e) == [err |-> e, ret |-> <<>>]

\* the coarse search  (lines 107-121): [err, off], off the offset <<dx, dy>>
\* it leaves
coarse_window_half_size(I, xy) ==
    LET x_margin == IntTrunc(Min(xy[1], I.w * Den - xy[1]))
        y_margin == IntTrunc(Min(xy[2], I.h * Den - xy[2]))
    IN  Min(CoarseHalfSize, Min(x_margin, y_margin))

CoarseSearch(I, J, xy, offset) ==
    LET half == coarse_window_half_size(I, xy)
        src == crop(I, xy, half)
        tgt == crop(J, <<xy[1] + offset[1], xy[2] + offset[2]>>, half)
    IN  IF src.err # NoError THEN [err |-> src.err, off |-> offset]
        ELSE IF tgt.err # NoError THEN [err |-> tgt.err, off |-> offset]
        ELSE LET shifts == phase_cross_correlation(src.img, tgt.img)
             IN  [err |-> NoError,
                  off |-> <<offset[1] - shifts[2] * Den,
                            offset[2] - shifts[1] * Den>>]

\* the registration on the window  (lines 123-139), from the offset the
\* coarse search left: every outcome [err, ret], ret the returned tuple
\* <<displacement <<dx, dy>>, errors>>
FineSearch(I, J, xy, half, off, method) ==
    LET src == crop(I, xy, half)
        tgt == crop(J, <<xy[1] + off[1], xy[2] + off[2]>>, half)
        moved(sh) == <<sh[2] + (tgt.ij[2] - src.ij[2]) * Den,
                       sh[1] + (tgt.ij[1] - src.ij[1]) * Den>>
    IN  IF src.err # NoError THEN {Raises(src.err)}
        ELSE IF tgt.err # NoError THEN {Raises(tgt.err)}
        ELSE IF method = "skimage"
        THEN LET shifts == phase_cross_correlation(src.img, tgt.img)
             IN  {[err |-> NoError,
                   ret |-> <<moved(<<-shifts[1] * Den, -shifts[2] * Den>>),
                             <<Scalar("error"), Scalar("phasediff")>>>>]}
        ELSE IF method = "opti"
        THEN {IF r.err # NoError THEN Raises(r.err)
              ELSE [err |-> NoError,
                    ret |-> <<moved(r.displ), <<Tuple("(1, C_theta)")>>>>] :
                 r \in phase_registration_optim(src.img, tgt.img)}
        ELSE {Raises(MethodError)}

\* get_shifts(I, J, x, y, window_half_size, offset, method, coarse_search)
\* (lines 105-139); upsample_factor is 1
get_shifts(I, J, xy, half, offset, method, coarse_search) ==
    IF coarse_search
    THEN LET cs == CoarseSearch(I, J, xy, offset)
         IN  IF cs.err # NoError THEN {Raises(cs.err)}
             ELSE FineSearch(I, J, xy, half, cs.off, method)
    ELSE FineSearch(I, J, xy, half, offset, method)

\* the first crop of get_shifts with coarse_search=True  (lines 107-114), on
\* a point inside the image: the clamped half-size, then crop(I, (x, y), ..)
CoarseCropCall ==
    /\ cpc = "idle"
    /\ \E h \in 1 .. MaxDim, w \in 1 .. MaxDim :
          \E x \in 0 .. w * Den - 1, y \in 0 .. h * Den - 1 :
              /\ cI' = IndexImage(h, w)
              /\ cXY' = <<x, y>>
              /\ cHalf' = coarse_window_half_size(IndexImage(h, w), <<x, y>>)
              /\ cRes' = crop(IndexImage(h, w), <<x, y>>,
                              coarse_window_half_size(IndexImage(h, w), <<x, y>>))
    /\ cpc' = "returned"

\* ------------------------------------------------------- tracking loops
Euler == "displacements_img_to_img"
Track == "track_displ_img_to_img"
TrackRef == "track_displ_img_to_ref"

\* an entry displ[k, i, :]: NaN, or a displacement <<dx, dy>>
NaNVec == [nan |-> TRUE, dx |-> 0, dy |-> 0]
Vec(u) == [nan |-> FALSE, dx |-> u[1], dy |-> u[2]]

UnpackError ==
    [kind |-> "ValueError", origin |-> "not enough values to unpack (expected 3, got 2)"]
SequenceError ==
    [kind |-> "ValueError", origin |-> "setting an array element with a sequence"]

\* offsets as lines 221-225 / 287-291 leave it: zeros for None, a 2D array
\* tiled over the points, a 3D array as it is
NormalizedOffsets(arg, steps, n) ==
    IF arg.kind = "None" THEN [k \in 1 .. steps |-> [i \in 1 .. n |-> <<0, 0>>]]
    ELSE IF arg.kind = "2D" THEN [k \in 1 .. steps |-> [i \in 1 .. n |-> arg.arr[k]]]
    ELSE arg.arr

\* np.empty(...) filled with NaN  (lines 227-230, 293-300)
AllNaN(steps, n, v) == [k \in 1 .. steps |-> [i \in 1 .. n |-> v]]

\* how many names the loop unpacks the value of get_shifts into
\* (lines 236, 314, 408)
UnpackArity(fn) == IF fn = Track THEN 2 ELSE 3

\* the source image of step k (0-based): images[k], or images[0] for the
\* image-to-reference loop  (lines 233, 305, 395-399)
SourceImage(fn, images, k) == IF fn = TrackRef THEN images[1] ELSE images[k + 1]

\* a loop that carries the position of the previous point over
StartPositionCarried(points, i, pos) == IF i = 1 THEN points[i] ELSE pos
\* xi, yi = x0, y0  (line 304)
StartPosition(points, i, pos) == points[i]

\* a loop that leaves the position where it was
AdvanceNot(pos, u) == pos
\* xi += u[0]; yi += u[1]  (lines 320-321)
Advance(pos, u) == <<pos[1] + u[1], pos[2] + u[2]>>

\* `except ValueError: pass`, the handler the source keeps commented out
AfterCaughtPass(k, steps) == k + 1
\* `except ValueError: break`  (lines 322-324): the value of tK that ends
\* the loop over the image pairs
AfterCaught(k, steps) == steps

Steps == Len(tImages) - 1
NumPoints == Len(tPoints)

\* the try block of one iteration  (lines 235-242, 313-324, 407-419), on the
\* outcome o of get_shifts: [exc, caught, displ, errors, pos, ok]
TryBlock(fn, o, k, i, pos) ==
    LET base == [exc |-> NoError, caught |-> NoError, displ |-> tDispl,
                 errors |-> tErrors, pos |-> pos, ok |-> FALSE]
    IN  IF o.err.kind = "ValueError" THEN [base EXCEPT !.caught = o.err]
        ELSE IF o.err # NoError THEN [base EXCEPT !.exc = o.err]
        ELSE IF Len(o.ret) # UnpackArity(fn) THEN [base EXCEPT !.caught = UnpackError]
        ELSE LET u == o.ret[1]
                 e == o.ret[2][1]
                 stored == [tDispl EXCEPT ![k + 1][i + 1] = Vec(u)]
             IN  IF fn = Euler THEN [base EXCEPT !.displ = stored, !.ok = TRUE]
                 ELSE IF ~e.scalar
                 THEN [base EXCEPT !.displ = stored, !.caught = SequenceError]
                 ELSE [base EXCEPT !.displ = stored,
                                   !.errors = [tErrors EXCEPT ![k + 1][i + 1] = e.v],
                                   !.pos = Advance(pos, u),
                                   !.ok = TRUE]

Record(o, k, i, xy) == [k |-> k, i |-> i, xy |-> xy, err |-> o.err, ret |-> o.ret]
Catch(t, k, i) ==
    IF t.caught = NoError THEN tCaught
    ELSE tCaught \cup {[k |-> k, i |-> i, err |-> t.caught]}

\* ---- track_displ_img_to_img and track_displ_img_to_ref
\* for i, (x0, y0) in enumerate(start_points): xi, yi = x0, y0
TrackNextPoint ==
    /\ tFn \in {Track, TrackRef}
    /\ tpc = "for_i"
    /\ tI < NumPoints
    /\ tI' = tI + 1
    /\ tPos' = StartPosition(tPoints, tI + 1, tPos)
    /\ tK' = 0
    /\ tpc' = "for_k"
    /\ UNCHANGED <<tFn, tImages, tPoints, tOffsetsArg, tParams, tGiven, tOffsets,
                   tDispl, tErrors, tExc, tCaught, tCalls>>

\* one iteration of the loop over the image pairs
TrackStep ==
    /\ tFn \in {Track, TrackRef}
    /\ tpc = "for_k"
    /\ tK < Steps
    /\ \E o \in get_shifts(SourceImage(tFn, tImages, tK), tImages[tK + 2], tPos,
                            tParams.window_half_size, tOffsets[tK + 1][tI],
                            tParams.method, tParams.coarse_search) :
          LET t == TryBlock(tFn, o, tK, tI - 1, tPos)
          IN  /\ tCalls' = tCalls \cup {Record(o, tK, tI - 1, tPos)}
              /\ tCaught' = Catch(t, tK, tI - 1)
              /\ tDispl' = t.displ
              /\ tErrors' = t.errors
              /\ tPos' = t.pos
              /\ tExc' = t.exc
              /\ tK' = IF t.ok THEN tK + 1
                       ELSE IF t.exc = NoError THEN AfterCaught(tK, Steps)
                       ELSE tK
              /\ tpc' = IF t.exc = NoError THEN "for_k" ELSE "raised"
    /\ UNCHANGED <<tFn, tImages, tPoints, tOffsetsArg, tParams, tGiven, tOffsets, tI>>

\* the loop over the image pairs is over, by exhaustion or by break
TrackEndPoint ==
    /\ tFn \in {Track, TrackRef}
    /\ tpc = "for_k"
    /\ tK >= Steps
    /\ tpc' = "for_i"
    /\ UNCHANGED <<tFn, tImages, tPoints, tOffsetsArg, tParams, tGiven, tOffsets,
                   tDispl, tErrors, tI, tK, tPos, tExc, tCaught, tCalls>>

\* return displ, errors
TrackReturn ==
    /\ tFn \in {Track, TrackRef}
    /\ tpc = "for_i"
    /\ tI >= NumPoints
    /\ tpc' = "returned"
    /\ UNCHANGED <<tFn, tImages, tPoints, tOffsetsArg, tParams, tGiven, tOffsets,
                   tDispl, tErrors, tI, tK, tPos, tExc, tCaught, tCalls>>

\* ---- displacements_img_to_img
\* for k, (A, B) in enumerate(zip(images, images[1:]))
EulerNextPair ==
    /\ tFn = Euler
    /\ tpc = "for_k"
    /\ tK < Steps
    /\ tK' = tK + 1
    /\ tI' = 0
    /\ tpc' = "for_i"
    /\ UNCHANGED <<tFn, tImages, tPoints, tOffsetsArg, tParams, tGiven, tOffsets,
                   tDispl, tErrors, tPos, tExc, tCaught, tCalls>>

\* one iteration of the loop over the points; get_shifts is called with its
\* default method and coarse search
EulerStep ==
    /\ tFn = Euler
    /\ tpc = "for_i"
    /\ tI < NumPoints
    /\ \E o \in get_shifts(tImages[tK], tImages[tK + 1], tPoints[tI + 1],
                            tParams.window_half_size, tOffsets[tK][tI + 1],
                            "skimage", TRUE) :
          LET t == TryBlock(tFn, o, tK - 1, tI, tPoints[tI + 1])
          IN  /\ tCalls' = tCalls \cup {Record(o, tK - 1, tI, tPoints[tI + 1])}
              /\ tCaught' = Catch(t, tK - 1, tI)
              /\ tDispl' = t.displ
              /\ tExc' = t.exc
              /\ tI' = IF t.exc = NoError THEN tI + 1 ELSE tI
              /\ tpc' = IF t.exc = NoError THEN "for_i" ELSE "raised"
    /\ UNCHANGED <<tFn, tImages, tPoints, tOffsetsArg, tParams, tGiven, tOffsets,
                   tErrors, tK, tPos>>

EulerEndPair ==
    /\ tFn = Euler
    /\ tpc = "for_i"
    /\ tI >= NumPoints
    /\ tpc' = "for_k"
    /\ UNCHANGED <<tFn, tImages, tPoints, tOffsetsArg, tParams, tGiven, tOffsets,
                   tDispl, tErrors, tI, tK, tPos, tExc, tCaught, tCalls>>

\* return displ
EulerReturn ==
    /\ tFn = Euler
    /\ tpc = "for_k"
    /\ tK >= Steps
    /\ tpc' = "returned"
    /\ UNCHANGED <<tFn, tImages, tPoints, tOffsetsArg, tParams, tGiven, tOffsets,
                   tDispl, tErrors, tI, tK, tPos, tExc, tCaught, tCalls>>

\* ---- the arguments drawn
\* a scene with two bright pixels, moved by v = <<dy, dx>> from one image
\* to the next
TrackScene == TwoDot(TrackDim, TrackDim, <<3, TrackDim - 2>>, <<2, 2>>)
Frames(v) ==
    [k \in 1 .. NumImages |-> Roll(TrackScene, <<(k - 1) * v[1], (k - 1) * v[2]>>)]
ImageSeqs == {Frames(v) : v \in {<<0, 0>>, <<0, 1>>}}

\* a point inside and between two pixels, a point whose window is out of
\* the image, a point whose window is the last one inside
StartCandidates ==
    {<<2 * Den + 1, 2 * Den>>, <<(TrackDim - 1) * Den, 3 * Den>>,
     <<(TrackDim - 2) * Den, 3 * Den>>}
PointLists ==
    UNION {[1 .. n -> StartCandidates] : n \in 1 .. MaxPoints}

OffsetArgs(steps, n) ==
    {[kind |-> "None", arr |-> <<>>],
     [kind |-> "2D", arr |-> [k \in 1 .. steps |-> <<Den, 0>>]],
     [kind |-> "3D",
      arr |-> [k \in 1 .. steps |-> [i \in 1 .. n |-> <<(i - 1) * Den, 0>>]]]}

ParamSets ==
    {[window_half_size |-> 1, method |-> m, coarse_search |-> c] :
        m \in {"skimage", "opti", "other"}, c \in BOOLEAN}
    \ {[window_half_size |-> 1, method |-> m, coarse_search |-> TRUE] :
        m \in {"opti", "other"}}

TrackIdle ==
    /\ tpc = "idle"
    /\ tFn = "none"
    /\ tImages = <<>> /\ tPoints = <<>>
    /\ tOffsetsArg = [kind |-> "None", arr |-> <<>>]
    /\ tParams = [window_half_size |-> 0, method |-> "none", coarse_search |-> FALSE]
    /\ tGiven = <<>>
    /\ tOffsets = <<>> /\ tDispl = <<>> /\ tErrors = <<>>
    /\ tI = 0 /\ tK = 0 /\ tPos = <<0, 0>>
    /\ tExc = NoError
    /\ tCaught = {} /\ tCalls = {}

\* the call, up to the first loop header
LoopCalled(fns) ==
    /\ tFn \in fns
    /\ tImages \in ImageSeqs
    /\ tPoints \in PointLists
    /\ tOffsetsArg \in OffsetArgs(Steps, NumPoints)
    /\ tParams \in ParamSets
    /\ tFn = Euler => (tParams.method = "skimage" /\ tParams.coarse_search)
    /\ tGiven = <<tImages, tPoints, tOffsetsArg>>
    /\ tOffsets = NormalizedOffsets(tOffsetsArg, Steps, NumPoints)
    /\ tDispl = AllNaN(Steps, NumPoints, NaNVec)
    /\ tErrors = AllNaN(Steps, NumPoints, "NaN")
    /\ tI = 0 /\ tK = 0 /\ tPos = <<0, 0>>
    /\ tpc = IF tFn = Euler THEN "for_k" ELSE "for_i"
    /\ tExc = NoError
    /\ tCaught = {} /\ tCalls = {}

\* ------------------------------------------------------ custom_fftfreq
\* np.arange(lo, hi): lo, lo + 1, .., hi - 1
arange(lo, hi) == [k \in 1 .. Max(0, hi - lo) |-> lo + k - 1]

\* N = (n-1)//2 + 1  (line 22)
SplitN(n) == (n - 1) \div 2 + 1

\* results[:N] = p1  (lines 23-24)
FillFirst(results, n) ==
    LET p1 == arange(0, SplitN(n))
    IN  [k \in 1 .. n |-> IF k <= SplitN(n) THEN p1[k] ELSE results[k]]

\* results[N:] = p2  (lines 25-26)
FillSecond(results, n) ==
    LET p2 == arange(-(n \div 2), 0)
    IN  [k \in 1 .. n |-> IF k > SplitN(n) THEN p2[k - SplitN(n)] ELSE results[k]]

\* results * val, val = 1.0 / n  (lines 20, 27): entry k is results[k] / n
Scaled(results, n) == [k \in 1 .. Len(results) |-> <<results[k], n>>]

\* the centred ordering of np.fft.fftshift(fftfreq(n)): negative
\* frequencies first
custom_fftfreq_shifted(n) == Scaled(arange(-(n \div 2), n - n \div 2), n)
\* custom_fftfreq(n)  (lines 15-27)
custom_fftfreq(n) ==
    Scaled(FillSecond(FillFirst([k \in 1 .. n |-> "empty"], n), n), n)

FreqIdle ==
    /\ fpc = "idle"
    /\ fN = 0
    /\ fResults = <<>>
    /\ fOut = <<>>

\* the call, and results = np.empty(n)  (line 21)
FreqCall ==
    /\ fpc = "idle"
    /\ \E n \in 1 .. MaxFreqN :
          /\ fN' = n
          /\ fResults' = [k \in 1 .. n |-> "empty"]
    /\ fpc' = "empty"
    /\ fOut' = <<>>

FreqFillFirst ==
    /\ fpc = "empty"
    /\ fResults' = FillFirst(fResults, fN)
    /\ fpc' = "first"
    /\ UNCHANGED <<fN, fOut>>

FreqFillSecond ==
    /\ fpc = "first"
    /\ fResults' = FillSecond(fResults, fN)
    /\ fpc' = "second"
    /\ UNCHANGED <<fN, fOut>>

FreqReturn ==
    /\ fpc = "second"
    /\ fOut' = custom_fftfreq(fN)
    /\ fpc' = "returned"
    /\ UNCHANGED <<fN, fResults>>

FreqDone ==
    /\ fpc = "returned"
    /\ fpc' = "idle"
    /\ fN' = 0
    /\ fResults' = <<>>
    /\ fOut' = <<>>

\* ---------------------------------------------------------- build_grid
\* int(np.ceil(v)) of v/Den  (lines 163-164)
CeilInt(v) == -((-v) \div Den)

\* int(a / 2) of Python, a an integer: truncation toward zero
HalfTrunc(a) == IF a >= 0 THEN a \div 2 ELSE -((-a) \div 2)

\* np.arange(0, stop, step)
Span(stop, step) ==
    [k \in 1 .. (IF stop <= 0 THEN 0 ELSE (stop - 1) \div step + 1) |->
        (k - 1) * step]

\* an offset that forgets to halve the free space
GridOffsetNotHalved(size, last) == size - last
\* x_offset = int((img_shape[1] - x_span[-1])/2)  (lines 168-169)
GridOffset(size, last) == HalfTrunc(size - last)

IndexError == [kind |-> "IndexError", origin |-> "index -1 is out of bounds"]

\* build_grid(img_shape, margin, spacing)  (lines 163-176): xs and ys are
\* x_span + x_offset and y_span + y_offset; np.meshgrid and np.stack lay
\* out their product, point (a, b) of the grid being <<xs[b], ys[a]>>
build_grid(shape, margin, spacing) ==
    LET m == CeilInt(margin)
        s == CeilInt(spacing)
        x_span == Span(shape[2] - 2 * m, s)
        y_span == Span(shape[1] - 2 * m, s)
    IN  IF x_span = <<>> \/ y_span = <<>>
        THEN [err |-> IndexError, xs |-> <<>>, ys |-> <<>>]
        ELSE LET x_offset == GridOffset(shape[2], x_span[Len(x_span)])
                 y_offset == GridOffset(shape[1], y_span[Len(y_span)])
             IN  [err |-> NoError,
                  xs |-> [k \in 1 .. Len(x_span) |-> x_span[k] + x_offset],
                  ys |-> [k \in 1 .. Len(y_span) |-> y_span[k] + y_offset]]

NoGrid == [err |-> NoError, xs |-> <<>>, ys |-> <<>>]

GridIdle ==
    /\ gpc = "idle"
    /\ gShape = <<0, 0>>
    /\ gMargin = 0
    /\ gSpacing = 0
    /\ gOut = NoGrid

\* margin is a distance, not negative; spacing is at least one pixel
GridCall ==
    /\ gpc = "idle"
    /\ \E h \in 1 .. MaxGridDim, w \in 1 .. MaxGridDim,
          margin \in 0 .. MaxMargin * Den, spacing \in Den .. MaxSpacing * Den :
          /\ gShape' = <<h, w>>
          /\ gMargin' = margin
          /\ gSpacing' = spacing
          /\ gOut' = build_grid(<<h, w>>, margin, spacing)
    /\ gpc' = "returned"

GridReturn ==
    /\ gpc = "returned"
    /\ gpc' = "idle"
    /\ gShape' = <<0, 0>>
    /\ gMargin' = 0
    /\ gSpacing' = 0
    /\ gOut' = NoGrid

\* ------------------------------------------------------- specifications
AllIdle == CropIdle /\ RegIdle /\ FreqIdle /\ GridIdle /\ TrackIdle

InitCrop == AllIdle
NextCrop ==
    \/ CropCall /\ UNCHANGED <<regVars, freqVars, gridVars, trackVars>>
    \/ CropReturn /\ UNCHANGED <<regVars, freqVars, gridVars, trackVars>>
SpecCrop == InitCrop /\ [][NextCrop]_vars

InitReg == RegCalled /\ CropIdle /\ FreqIdle /\ GridIdle /\ TrackIdle
NextReg ==
    \/ RegFftA /\ UNCHANGED <<cropVars, freqVars, gridVars, trackVars>>
    \/ RegFftB /\ UNCHANGED <<cropVars, freqVars, gridVars, trackVars>>
    \/ RegCrossPower /\ UNCHANGED <<cropVars, freqVars, gridVars, trackVars>>
    \/ RegPhaseCorr /\ UNCHANGED <<cropVars, freqVars, gridVars, trackVars>>
    \/ RegArgmax /\ UNCHANGED <<cropVars, freqVars, gridVars, trackVars>>
    \/ RegMinimize /\ UNCHANGED <<cropVars, freqVars, gridVars, trackVars>>
    \/ RegReturn /\ UNCHANGED <<cropVars, freqVars, gridVars, trackVars>>
SpecReg == InitReg /\ [][NextReg]_vars

InitFreq == AllIdle
NextFreq ==
    \/ FreqCall /\ UNCHANGED <<cropVars, regVars, gridVars, trackVars>>
    \/ FreqFillFirst /\ UNCHANGED <<cropVars, regVars, gridVars, trackVars>>
    \/ FreqFillSecond /\ UNCHANGED <<cropVars, regVars, gridVars, trackVars>>
    \/ FreqReturn /\ UNCHANGED <<cropVars, regVars, gridVars, trackVars>>
    \/ FreqDone /\ UNCHANGED <<cropVars, regVars, gridVars, trackVars>>
SpecFreq == InitFreq /\ [][NextFreq]_vars

InitGrid == AllIdle
NextGrid ==
    \/ GridCall /\ UNCHANGED <<cropVars, regVars, freqVars, trackVars>>
    \/ GridReturn /\ UNCHANGED <<cropVars, regVars, freqVars, trackVars>>
SpecGrid == InitGrid /\ [][NextGrid]_vars

\* the coarse source crop of get_shifts
InitCoarse == AllIdle
NextCoarse ==
    \/ CoarseCropCall /\ UNCHANGED <<regVars, freqVars, gridVars, trackVars>>
    \/ CropReturn /\ UNCHANGED <<regVars, freqVars, gridVars, trackVars>>
SpecCoarse == InitCoarse /\ [][NextCoarse]_vars

\* track_displ_img_to_img alone
InitTrack == LoopCalled({Track}) /\ CropIdle /\ RegIdle /\ FreqIdle /\ GridIdle
NextTrack ==
    \/ TrackNextPoint /\ UNCHANGED <<cropVars, regVars, freqVars, gridVars>>
    \/ TrackStep /\ UNCHANGED <<cropVars, regVars, freqVars, gridVars>>
    \/ TrackEndPoint /\ UNCHANGED <<cropVars, regVars, freqVars, gridVars>>
    \/ TrackReturn /\ UNCHANGED <<cropVars, regVars, freqVars, gridVars>>
SpecTrack == InitTrack /\ [][NextTrack]_vars

\* the three loops
InitLoops ==
    LoopCalled({Euler, Track, TrackRef}) /\ CropIdle /\ RegIdle /\ FreqIdle /\ GridIdle
NextLoops ==
    \/ TrackNextPoint /\ UNCHANGED <<cropVars, regVars, freqVars, gridVars>>
    \/ TrackStep /\ UNCHANGED <<cropVars, regVars, freqVars, gridVars>>
    \/ TrackEndPoint /\ UNCHANGED <<cropVars, regVars, freqVars, gridVars>>
    \/ TrackReturn /\ UNCHANGED <<cropVars, regVars, freqVars, gridVars>>
    \/ EulerNextPair /\ UNCHANGED <<cropVars, regVars, freqVars, gridVars>>
    \/ EulerStep /\ UNCHANGED <<cropVars, regVars, freqVars, gridVars>>
    \/ EulerEndPair /\ UNCHANGED <<cropVars, regVars, freqVars, gridVars>>
    \/ EulerReturn /\ UNCHANGED <<cropVars, regVars, freqVars, gridVars>>
SpecLoops == InitLoops /\ [][NextLoops]_vars

\* ----------------------------------------------------------- claim C1
\* the requested window, rows i-half..i+half and columns j-half..j+half
\* around the rounded centre, lies entirely inside the image
WindowInside(I, xy, half) ==
    LET j == Around(xy[1])
        i == Around(xy[2])
    IN  /\ 0 <= i - half /\ i + half <= I.h - 1
        /\ 0 <= j - half /\ j + half <= I.w - 1

\* C1: crop fails with the bounds error whenever the requested window is not
\* entirely inside the image (negative rounded centres included), and
\* otherwise returns exactly the (2*half_size+1)^2 window and the rounded
\* centre.
C1_CropContract ==
    cpc = "returned" =>
        LET j == Around(cXY[1])
            i == Around(cXY[2])
        IN  IF ~WindowInside(cI, cXY, cHalf)
            THEN cRes.err = CropError
            ELSE /\ cRes.err = NoError
                 /\ cRes.ij = <<i, j>>
                 /\ cRes.img.h = 2 * cHalf + 1
                 /\ cRes.img.w = 2 * cHalf + 1
                 /\ \A p \in Pixels(2 * cHalf + 1, 2 * cHalf + 1) :
                        cRes.img.px[p] =
                            cI.px[<<i - cHalf + p[1], j - cHalf + p[2]>>]

\* ----------------------------------------------------------- claim C2
\* A is non-degenerate: its circular autocorrelation has one strict peak,
\* at lag zero (A coincides with none of its own shifts, up to sign)
NonDegenerate(A) ==
    LET c == CrossPower(A, A)
    IN  \A n \in Pixels(A.h, A.w) :
            n # <<0, 0>> => Abs(c.px[n]) < c.px[<<0, 0>>]

\* the shifts an axis of length n tells apart: one per residue modulo n
PrincipalShift(v, n) == -((n + 1) \div 2 - 1) <= v /\ v <= n \div 2

\* what the claim says of one shift d of the call that returned
RecoversShift(d) ==
    rB = Roll(rA, d) => rOut.displ = <<d[1] * Den, d[2] * Den>>

\* C2 as stated: for non-degenerate A and B = A circularly shifted by any
\* integer (dy, dx), the call returns the displacement (dy, dx), order
\* (y, x), sign target minus source.  (Stated here for the images of at
\* least 2 x 2 pixels that register requires.)
C2_AnyShiftRecovered ==
    (rpc = "returned" /\ NonDegenerate(rA) /\ rA.h >= 2 /\ rA.w >= 2) =>
        \A d \in RegShifts : RecoversShift(d)

\* C2 as amended: the same for every shift with
\* -(ceil(n/2) - 1) <= d <= floor(n/2) on each axis of length n; a shift is
\* recovered modulo the image shape only.
C2_PrincipalShiftRecovered ==
    (rpc = "returned" /\ NonDegenerate(rA)) =>
        \A d \in RegShifts :
            (PrincipalShift(d[1], rA.h) /\ PrincipalShift(d[2], rA.w))
                => RecoversShift(d)

\* a 3 x 3 non-degenerate A, B = A moved one row up and one column right,
\* and the call returned (-1, 1)
C2_Witness ==
    /\ rpc = "returned"
    /\ ShapeOf(rA) = <<3, 3>>
    /\ NonDegenerate(rA)
    /\ rB = Roll(rA, <<-1, 1>>)
    /\ rOut.displ = <<-Den, Den>>

\* ----------------------------------------------------------- claim C3
\* C3: when A and B differ in shape the call fails with an invalid-argument
\* error before any FFT of A or B is computed, and never returns a
\* displacement.
C3_ShapeMismatchFailsFast ==
    ShapeOf(rA) # ShapeOf(rB) =>
        /\ rFFT = {}
        /\ rpc # "returned"

\* ----------------------------------------------------------- claim C4
\* C4: the error crop raises for an out-of-bounds window is of a kind of its
\* own, so that the handlers of the tracking loops skip a point or break a
\* trajectory only because of an out-of-bounds window, never because of
\* another failure.
C4_OnlyCropErrorsCaught ==
    \A c \in tCaught : c.err = CropError

\* ----------------------------------------------------------- claim C5
\* C5: for every n >= 1, custom_fftfreq(n) has length n and lists, each over
\* n, the integers 0, 1, .., ceil(n/2) - 1 followed by -floor(n/2), .., -1:
\* the standard ordering, not the centred one.
C5_StandardOrdering ==
    fpc = "returned" =>
        /\ Len(fOut) = fN
        /\ \A k \in 0 .. (fN + 1) \div 2 - 1 : fOut[k + 1] = <<k, fN>>
        /\ \A k \in 1 .. fN \div 2 : fOut[fN - k + 1] = <<-k, fN>>
        /\ fOut = Scaled(fResults, fN)

\* custom_fftfreq(6) returned 0, 1/6, 2/6, -3/6, -2/6, -1/6
C5_WitnessEven == fpc = "returned" /\ fN = 6 /\ fOut[4] = <<-3, 6>> /\ fOut[3] = <<2, 6>>

\* ----------------------------------------------------------- claim C6
\* C6: displacements_img_to_img returns an array of shape
\* (nbr_images-1, nbr_points, 2) whose entry [k, i] is NaN only if an error
\* occurred while registering point i between images k and k+1, and holds
\* the displacement get_shifts returned whenever get_shifts completed.
C6_EulerKeepsReturnedShifts ==
    (tFn = Euler /\ tpc = "returned") =>
        /\ Len(tDispl) = Len(tImages) - 1
        /\ \A k \in 1 .. Len(tDispl) : Len(tDispl[k]) = Len(tPoints)
        /\ \A k \in 1 .. Len(tDispl) : \A i \in 1 .. Len(tPoints) :
              tDispl[k][i].nan =>
                  \E c \in tCaught : c.k = k - 1 /\ c.i = i - 1
        /\ \A c \in tCalls :
              c.err = NoError => tDispl[c.k + 1][c.i + 1] = Vec(c.ret[1])

\* ----------------------------------------------------------- claim C7
\* C7: when height and width exceed 2*ceil(margin) and spacing >= 1, every
\* grid point is inside the image at least margin away from each edge,
\* consecutive points are ceil(spacing) apart on each axis, and the free
\* space on the two sides of an axis differs by at most one pixel.
AxisOfGrid(cs, size) ==
    /\ cs # <<>>
    /\ \A k \in 1 .. Len(cs) :
          /\ 0 <= cs[k] /\ cs[k] <= size - 1
          /\ gMargin <= cs[k] * Den
          /\ gMargin <= (size - 1 - cs[k]) * Den
    /\ \A k \in 1 .. Len(cs) - 1 : cs[k + 1] - cs[k] = CeilInt(gSpacing)
    /\ Abs(cs[1] - (size - 1 - cs[Len(cs)])) <= 1

C7_GridInsideCentred ==
    (/\ gpc = "returned"
     /\ gShape[1] > 2 * CeilInt(gMargin)
     /\ gShape[2] > 2 * CeilInt(gMargin)) =>
        /\ gOut.err = NoError
        /\ AxisOfGrid(gOut.xs, gShape[2])
        /\ AxisOfGrid(gOut.ys, gShape[1])

\* a 7 x 7 image, margin 1.5 and spacing 1.5: the grid has two columns and
\* two rows, 2 pixels apart, from pixel 2 to pixel 4
C7_Witness ==
    /\ gpc = "returned"
    /\ gShape = <<7, 7>>
    /\ 2 * gMargin = 3 * Den /\ 2 * gSpacing = 3 * Den
    /\ gOut.err = NoError
    /\ gOut.xs = <<2, 4>> /\ gOut.ys = <<2, 4>>

\* ----------------------------------------------------------- claim C8
\* the trajectory of one point tracked on its own: every sequence, over the
\* steps from k on, of entries [d, e] (displacement and error recorded) that
\* track_displ_img_to_img can leave for a point at pos before step k
NaNs(n) == [j \in 1 .. n |-> [d |-> NaNVec, e |-> "NaN"]]
RECURSIVE PointRuns(_, _, _, _, _)
PointRuns(images, offs, params, k, pos) ==
    IF k = Len(images) - 1 THEN {<<>>}
    ELSE UNION {
        IF o.err.kind = "ValueError" THEN {NaNs(Len(images) - 1 - k)}
        ELSE IF o.err # NoError THEN {}
        ELSE IF ~o.ret[2][1].scalar
        THEN {<<[d |-> Vec(o.ret[1]), e |-> "NaN"]>> \o NaNs(Len(images) - 2 - k)}
        ELSE {<<[d |-> Vec(o.ret[1]), e |-> o.ret[2][1].v]>> \o r :
                r \in PointRuns(images, offs, params, k + 1,
                                <<pos[1] + o.ret[1][1], pos[2] + o.ret[1][2]>>)} :
        o \in get_shifts(images[k + 1], images[k + 2], pos, params.window_half_size,
                         offs[k + 1], params.method, params.coarse_search)}

\* row i of the results, and offsets[:, i, :] of the argument
ResultsOf(i) == [k \in 1 .. Steps |-> [d |-> tDispl[k][i], e |-> tErrors[k][i]]]
OffsetsOf(i) ==
    [k \in 1 .. Steps |-> NormalizedOffsets(tGiven[3], Steps, NumPoints)[k][i]]

\* C8: what track_displ_img_to_img returns for point i is what it returns
\* for that point tracked alone: a function of the images, start_points[i],
\* offsets[:, i, :] and the parameters only, whatever the other points are
\* and whether they fail; and the arguments are as they were given.
C8_PointsIndependent ==
    (tFn = Track /\ tpc = "returned") =>
        /\ <<tImages, tPoints, tOffsetsArg>> = tGiven
        /\ \A i \in 1 .. NumPoints :
              ResultsOf(i) \in PointRuns(tGiven[1], OffsetsOf(i), tParams, 0, tGiven[2][i])

\* two points of which the first failed at once and the second was
\* followed over a displacement that is not zero
C8_Witness ==
    /\ tFn = Track /\ tpc = "returned"
    /\ NumPoints = 2
    /\ tDispl[1][1].nan
    /\ ~tDispl[1][2].nan /\ tDispl[1][2].dx # 0
    /\ ~tDispl[2][2].nan

\* ----------------------------------------------------------- claim C9
\* SUM of displ[0 .. k-1, i, :] (k, i counted from 0)
RECURSIVE SumDispl(_, _)
SumDispl(k, i) ==
    IF k = 0 THEN <<0, 0>>
    ELSE LET r == SumDispl(k - 1, i)
         IN  <<r[1] + tDispl[k][i + 1].dx, r[2] + tDispl[k][i + 1].dy>>

\* C9: in track_displ_img_to_img the position passed to get_shifts for point
\* i at step k is start_points[i] plus the displacements recorded for that
\* point at the steps before k; it is start_points[i] at step 0.
C9_PositionAccumulates ==
    tFn = Track =>
        \A c \in tCalls :
            /\ \A k \in 1 .. c.k : ~tDispl[k][c.i + 1].nan
            /\ c.xy = <<tPoints[c.i + 1][1] + SumDispl(c.k, c.i)[1],
                        tPoints[c.i + 1][2] + SumDispl(c.k, c.i)[2]>>

\* the second point was passed to get_shifts, at its second step, away from
\* where it started
C9_Witness ==
    /\ tFn = Track
    /\ \E c \in tCalls : c.i = 1 /\ c.k = 1 /\ c.xy # tPoints[2]

\* ---------------------------------------------------------- claim C10
\* C10: when get_shifts raises the caught error for point i at step k, no
\* later step is attempted for point i and displ[k', i] stays NaN for every
\* k' >= k, so that the entries recorded for a point form a prefix of the
\* steps; the other points are still tracked to their own end, and the
\* caught error never ends the call.
C10_BreaksOnlyItsTrajectory ==
    tFn = Track =>
        /\ \A c \in tCalls :
              c.err.kind = "ValueError" =>
                  /\ \A d \in tCalls : d.i = c.i => d.k <= c.k
                  /\ \A k \in c.k + 1 .. Steps : tDispl[k][c.i + 1].nan
        /\ \A i \in 1 .. NumPoints : \A k \in 2 .. Steps :
              ~tDispl[k][i].nan => ~tDispl[k - 1][i].nan
        /\ tExc.kind # "ValueError"
        /\ tpc = "returned" =>
              \A i \in 0 .. NumPoints - 1 : \A k \in 0 .. Steps - 1 :
                  \/ \E c \in tCalls : c.i = i /\ c.k = k
                  \/ \E c \in tCaught : c.i = i /\ c.k < k

\* the first point broke at its second step, and the second point was then
\* tracked over both steps
C10_Witness ==
    /\ tFn = Track /\ tpc = "returned"
    /\ NumPoints = 2
    /\ \E c \in tCalls : c.i = 0 /\ c.k = 1 /\ c.err = CropError
    /\ ~tDispl[1][1].nan /\ tDispl[2][1].nan
    /\ ~tDispl[2][2].nan

\* ---------------------------------------------------------- claim C11
\* C11: with coarse_search=True the coarse half-size, clamped to
\* min(70, x_margin, y_margin), fits in the source image: for every point
\* (x, y) with 0 <= x < width and 0 <= y < height the coarse source crop
\* crop(I, (x, y), coarse_window_half_size) does not raise the
\* out-of-bounds error.
C11_CoarseWindowFits ==
    (/\ cpc = "returned"
     /\ 0 <= cXY[1] /\ cXY[1] < cI.w * Den
     /\ 0 <= cXY[2] /\ cXY[2] < cI.h * Den
     /\ cHalf = coarse_window_half_size(cI, cXY)) =>
        cRes.err # CropError

====
